---- MODULE Spec2Model ----
(***************************************************************************)
(* The terminal tab layer of crates/terminal/src/terminal.rs:              *)
(*   - TerminalView, the tab item, whose content is either a ConnectedView *)
(*     over a Terminal model or an ErrorView holding the spawn failure;    *)
(*   - the subscriptions that translate the events of a Terminal model     *)
(*     into the events a TerminalView emits to its host;                   *)
(*   - the working directory a new terminal starts in.                     *)
(* Handlers run as top-level updates of a single UI thread: an update      *)
(* queues effects (events, focus requests, deferred callbacks) and the     *)
(* queue is then flushed in FIFO order before the next update starts.      *)
(***************************************************************************)
EXTENDS Integers, Sequences, FiniteSets, TLC

\* Bounds of the model.
MaxViews == 2        \* TerminalView handles that are ever created
MaxBurst == 2        \* events a Terminal model emits within one update
MaxWorktrees == 2    \* worktrees of a workspace

VARIABLES
    terminals,        \* Terminal models: id -> [associated_directory]
    pty_input,        \* the input on its way to the shell of a Terminal, if any
    terminal_views,   \* TerminalView: view id -> [modal, content]
    connected_views,  \* ConnectedView: view id -> [terminal, has_new_content, has_bell, modal]
    error_views,      \* ErrorView: view id -> [error]
    subscriptions,    \* <<tv, cv>>: TerminalView tv re-emits the events of ConnectedView cv
    focused,          \* id of the view holding input focus, 0 for a view of the host
    pending_effects,  \* the effect queue of the running update
    focus_history,    \* per ConnectedView: what happened last, construction, focus or output
    workspace,        \* the workspace a resolver call is given
    wd_setting,       \* the working_directory setting a resolver call is given
    home,             \* what home_dir() returns
    resolved          \* the call the last update made, of a resolver function or of
                      \* clone_on_split, and what it returned

vars == <<terminals, pty_input, terminal_views, connected_views, error_views, subscriptions,
          focused, pending_effects, focus_history, workspace, wd_setting, home, resolved>>

view_vars == <<terminals, pty_input, terminal_views, connected_views, error_views, subscriptions,
               focused, pending_effects, focus_history>>

wd_vars == <<workspace, wd_setting, home, resolved>>

\* Option::None of a path, an event payload or an error; 0 is the None of an id.
None == "None"

\* connection::Event, as far as this file names its variants.
Events == {"Wakeup", "Bell", "Activate", "TitleChanged", "CloseTerminal"}

----------------------------------------------------------------------------
(* Working directory resolution. *)

\* A worktree: what its root entry is, and whether it is a local worktree.
RootEntries == {"dir", "file", "none"}

Worktrees == [root_entry : RootEntries, local : BOOLEAN]

RootDirs == <<"/root1", "/root2", "/root3", "/root4">>

RootFiles == <<"/root1.txt", "/root2.txt", "/root3.txt", "/root4.txt">>

\* LocalWorktree::abs_path of the worktree created i-th, named as the tests do.
abs_path(i, wt) == IF wt.root_entry = "file" THEN RootFiles[i] ELSE RootDirs[i]

SeqsUpTo(S, n) == UNION {[1..k -> S] : k \in 0..n}

\* A workspace: its worktrees in enumeration order, and the project's active
\* entry, 0 (none) or the id of an entry. The entry with id i lies in worktree
\* i; an id beyond the worktrees is an entry no worktree is found for.
Workspaces ==
    {[worktrees |-> w, active_entry |-> a] :
        w \in SeqsUpTo(Worktrees, MaxWorktrees),
        a \in 0..(MaxWorktrees + 1)}

\* Option::or_else
or_else(res, other) == IF res # None THEN res ELSE other

\* Project::worktree_for_entry: the index of the worktree holding the entry.
worktree_for_entry(ws, entry_id) ==
    IF entry_id \in 1..Len(ws.worktrees) THEN entry_id ELSE 0

\* workspace.worktrees(cx).next()
first_worktree(ws) == IF Len(ws.worktrees) > 0 THEN 1 ELSE 0

\* worktree_handle.read(cx).as_local()
as_local(ws, i) ==
    IF i = 0 THEN 0
    ELSE IF ws.worktrees[i].local THEN i ELSE 0

\* get_path_from_wt with a file root reduced to the directory that holds it.
get_path_from_wt_parent(ws, i) ==
    IF i = 0 THEN None
    ELSE IF ws.worktrees[i].root_entry = "dir"
         THEN abs_path(i, ws.worktrees[i])
         ELSE IF ws.worktrees[i].root_entry = "file" THEN "/" ELSE None

get_path_from_wt(ws, i) ==
    IF i = 0 THEN None
    ELSE IF ws.worktrees[i].root_entry = "dir"
         THEN abs_path(i, ws.worktrees[i])
         ELSE None

\* first_project_directory that looks for the active entry's worktree first.
first_project_directory_of_active(ws) ==
    LET active == IF ws.active_entry = 0
                  THEN 0
                  ELSE worktree_for_entry(ws, ws.active_entry)
        wt == IF active # 0 THEN active ELSE first_worktree(ws)
    IN  get_path_from_wt(ws, as_local(ws, wt))

first_project_directory(ws) ==
    get_path_from_wt(ws, as_local(ws, first_worktree(ws)))

\* current_project_directory with the first worktree tried again when the
\* active entry's worktree gives no path.
current_project_directory_retrying(ws) ==
    LET active == IF ws.active_entry = 0
                  THEN 0
                  ELSE worktree_for_entry(ws, ws.active_entry)
        wt == IF active # 0 THEN active ELSE first_worktree(ws)
    IN  or_else(get_path_from_wt(ws, as_local(ws, wt)), first_project_directory(ws))

\* current_project_directory that falls back to the first worktree only
\* when there is no active entry.
current_project_directory_no_entry_only(ws) ==
    LET active == IF ws.active_entry = 0
                  THEN 0
                  ELSE worktree_for_entry(ws, ws.active_entry)
        wt == IF ws.active_entry = 0 THEN first_worktree(ws) ELSE active
    IN  get_path_from_wt(ws, as_local(ws, wt))

current_project_directory(ws) ==
    LET active == IF ws.active_entry = 0
                  THEN 0
                  ELSE worktree_for_entry(ws, ws.active_entry)
        wt == IF active # 0 THEN active ELSE first_worktree(ws)
    IN  get_path_from_wt(ws, as_local(ws, wt))

\* home_dir(): the user's home directory, if it is known.
Homes == {"/home", None}

\* The directories of the Always { directory } setting that are tried.
Directories == {"~/fixed", "$UNSET/fixed", "/missing", "/root1.txt"}

\* settings.terminal_overrides.working_directory
WorkingDirectories ==
    [kind : {"Unset", "CurrentProjectDirectory", "FirstProjectDirectory", "AlwaysHome"},
     directory : {None}]
    \cup [kind : {"Always"}, directory : Directories]

\* shellexpand::full: ~ becomes the home directory when there is one, a
\* variable that is not set is an error (None here), other text stays.
shellexpand_full(directory, h) ==
    CASE directory = "~/fixed" -> IF h = None THEN "~/fixed" ELSE "/home/fixed"
      [] directory = "$UNSET/fixed" -> None
      [] OTHER -> directory

\* Path::is_dir on the file system the model runs on.
is_dir(path) == path \in {"/home/fixed", "/home", "/root1", "/root2"}

\* The policy step with an Always directory that is taken as it expands,
\* whether it names a directory or not.
working_directory_policy_unchecked(ws, setting, h) ==
    LET kind == IF setting.kind = "Unset"
                THEN "CurrentProjectDirectory"
                ELSE setting.kind
        expanded == shellexpand_full(setting.directory, h)
    IN  CASE kind = "CurrentProjectDirectory" -> current_project_directory(ws)
          [] kind = "FirstProjectDirectory" -> first_project_directory(ws)
          [] kind = "AlwaysHome" -> None
          [] kind = "Always" -> expanded

\* The policy step of get_working_directory: the setting, with
\* CurrentProjectDirectory for a setting that is not given, and the match on
\* it that yields res.
working_directory_policy(ws, setting, h) ==
    LET kind == IF setting.kind = "Unset"
                THEN "CurrentProjectDirectory"
                ELSE setting.kind
        expanded == shellexpand_full(setting.directory, h)
    IN  CASE kind = "CurrentProjectDirectory" -> current_project_directory(ws)
          [] kind = "FirstProjectDirectory" -> first_project_directory(ws)
          [] kind = "AlwaysHome" -> None
          [] kind = "Always" ->
                 IF expanded # None /\ is_dir(expanded) THEN expanded ELSE None

\* get_working_directory with the home directory substituted in the
\* AlwaysHome branch only.
get_working_directory_home_in_branch(ws, setting, h) ==
    IF setting.kind = "AlwaysHome" THEN h ELSE working_directory_policy(ws, setting, h)

get_working_directory(ws, setting, h) ==
    or_else(working_directory_policy(ws, setting, h), h)

----------------------------------------------------------------------------
(* Effects. *)

\* An event an entity emitted. cause numbers the event of the Terminal model
\* it comes from within the model's update, 0 when it comes from none.
EventEffect(entity, id, payload, cause) ==
    [type |-> "Event", entity |-> entity, id |-> id, payload |-> payload, cause |-> cause]

\* cx.focus(view)
FocusEffect(id) ==
    [type |-> "Focus", entity |-> "View", id |-> id, payload |-> None, cause |-> 0]

\* cx.defer(callback) of a TerminalView
DeferredEffect(id) ==
    [type |-> "Deferred", entity |-> "TerminalView", id |-> id, payload |-> None, cause |-> 0]

ViewIds == DOMAIN terminal_views \cup DOMAIN connected_views \cup DOMAIN error_views

NextViewId == Cardinality(ViewIds) + 1

NextTerminalId == Cardinality(DOMAIN terminals) + 1

Extend(f, k, v) == [x \in DOMAIN f \cup {k} |-> IF x = k THEN v ELSE f[x]]

Min(S) == CHOOSE x \in S : \A y \in S : x <= y

RECURSIVE Ascending(_)
Ascending(S) == IF S = {} THEN <<>> ELSE <<Min(S)>> \o Ascending(S \ {Min(S)})

RECURSIVE Concat(_)
Concat(ss) == IF ss = <<>> THEN <<>> ELSE Head(ss) \o Concat(Tail(ss))

\* cx.is_self_focused() of view v
is_self_focused(v) == focused = v

----------------------------------------------------------------------------
(* Construction. *)

\* from_terminal with a view that starts without new content.
ConnectedView_from_terminal_clean(terminal, modal) ==
    [terminal |-> terminal, has_new_content |-> FALSE, has_bell |-> FALSE, modal |-> modal]

\* ConnectedView::from_terminal: the view it returns. Its two subscriptions to
\* the Terminal model live as long as the view: the observer only re-renders,
\* the event callback is on_terminal_event below.
ConnectedView_from_terminal(terminal, modal) ==
    [terminal |-> terminal, has_new_content |-> TRUE, has_bell |-> FALSE, modal |-> modal]

\* The content a TerminalView is built with.
TerminalContent(variant, handle) == [variant |-> variant, handle |-> handle]

\* TerminalView::new in the context of the view being added: the view gets
\* the next view id and its content view the one after. ok is whether
\* TerminalBuilder::new succeeds; the model it builds records the directory
\* it was given as its associated_directory.
TerminalView_new(working_directory, modal, ok) ==
    LET tv == NextViewId
        content == tv + 1
        terminal == NextTerminalId
    IN  /\ IF ok
           THEN /\ terminals' = Extend(terminals, terminal,
                        [associated_directory |-> working_directory])
                /\ connected_views' = Extend(connected_views, content,
                        ConnectedView_from_terminal(terminal, modal))
                /\ focus_history' = Extend(focus_history, content, "constructed")
                /\ subscriptions' = subscriptions \cup {<<tv, content>>}
                /\ terminal_views' = Extend(terminal_views, tv,
                        [modal |-> modal, content |-> TerminalContent("Connected", content)])
                /\ UNCHANGED error_views
           ELSE /\ error_views' = Extend(error_views, content, [error |-> "TerminalError"])
                /\ terminal_views' = Extend(terminal_views, tv,
                        [modal |-> modal, content |-> TerminalContent("Error", content)])
                /\ UNCHANGED <<terminals, connected_views, focus_history, subscriptions>>
        /\ pending_effects' = Append(pending_effects, FocusEffect(content))
        /\ UNCHANGED <<focused, pty_input>>

\* TerminalView::from_terminal in the context of the view being added.
TerminalView_from_terminal(terminal, modal) ==
    LET tv == NextViewId
        connected_view == tv + 1
    IN  /\ connected_views' = Extend(connected_views, connected_view,
                ConnectedView_from_terminal(terminal, modal))
        /\ focus_history' = Extend(focus_history, connected_view, "constructed")
        /\ terminal_views' = Extend(terminal_views, tv,
                [modal |-> modal, content |-> TerminalContent("Connected", connected_view)])
        /\ UNCHANGED <<terminals, pty_input, error_views, subscriptions, focused, pending_effects>>

NoInput == [terminal |-> 0, input |-> None]

NoCall == [call |-> "none", result |-> None]

\* The update makes the call, or none of those resolved keeps track of.
Calls(call) == resolved' = call /\ UNCHANGED <<workspace, wd_setting, home>>

\* An update starts only when the update before it has flushed its effects.
Idle == pending_effects = <<>> /\ pty_input = NoInput

CanAddView == Cardinality(DOMAIN terminal_views) < MaxViews

\* ConnectedView::deploy on workspace ws: a new terminal tab in the directory
\* the workspace, the settings and the home directory resolve to.
deploy(ws, ok) == TerminalView_new(get_working_directory(ws, wd_setting, home), FALSE, ok)

Deploy ==
    /\ Idle /\ CanAddView
    /\ \E ws \in Workspaces, ok \in BOOLEAN :
           /\ deploy(ws, ok)
           /\ Calls([call |-> "get_working_directory",
                     result |-> get_working_directory(ws, wd_setting, home)])

\* A host that holds a Terminal model (the modal terminal) adds a view over it.
FromTerminal ==
    /\ Idle /\ CanAddView
    /\ \E terminal \in DOMAIN terminals : TerminalView_from_terminal(terminal, TRUE)
    /\ Calls(NoCall)

\* clone_on_split that retries the terminal of an Error handle in place.
clone_on_split_retrying(tv, ok) ==
    IF terminal_views[tv].content.variant = "Connected"
    THEN LET connected == connected_views[terminal_views[tv].content.handle]
             associated_directory == terminals[connected.terminal].associated_directory
         IN  TerminalView_new(associated_directory, FALSE, ok)
    ELSE IF ok
         THEN LET view == NextViewId
                  terminal == NextTerminalId
              IN  /\ terminals' = Extend(terminals, terminal, [associated_directory |-> None])
                  /\ connected_views' = Extend(connected_views, view,
                          ConnectedView_from_terminal(terminal, FALSE))
                  /\ focus_history' = Extend(focus_history, view, "constructed")
                  /\ subscriptions' = subscriptions \cup {<<tv, view>>}
                  /\ terminal_views' = [terminal_views EXCEPT
                          ![tv].content = TerminalContent("Connected", view)]
                  /\ pending_effects' = Append(pending_effects, FocusEffect(view))
                  /\ UNCHANGED <<error_views, focused, pty_input>>
         ELSE UNCHANGED view_vars

\* clone_on_split with the working directory resolved again from the
\* workspace and the settings.
clone_on_split_resolving_again(tv, ok) ==
    IF terminal_views[tv].content.variant = "Connected"
    THEN TerminalView_new(get_working_directory(workspace, wd_setting, home), FALSE, ok)
    ELSE UNCHANGED view_vars

\* TerminalView::clone_on_split of view tv, in the context of the view the
\* host adds for the clone when the result is Some(view).
clone_on_split(tv, ok) ==
    IF terminal_views[tv].content.variant = "Connected"
    THEN LET connected == connected_views[terminal_views[tv].content.handle]
             associated_directory == terminals[connected.terminal].associated_directory
         IN  TerminalView_new(associated_directory, FALSE, ok)
    ELSE UNCHANGED view_vars

CloneOnSplit ==
    /\ Idle /\ CanAddView
    /\ \E tv \in DOMAIN terminal_views, ok \in BOOLEAN :
           /\ clone_on_split(tv, ok)
           \* the result is None exactly when no view was built
           /\ Calls([call |-> "clone_on_split", this |-> tv,
                     result |-> IF view_vars' = view_vars THEN None ELSE "Some"])

\* is_dirty that reads the bell flag.
is_dirty_reading_bell(tv) ==
    IF terminal_views[tv].content.variant = "Connected"
    THEN connected_views[terminal_views[tv].content.handle].has_bell
    ELSE FALSE

\* TerminalView::is_dirty
is_dirty(tv) ==
    IF terminal_views[tv].content.variant = "Connected"
    THEN connected_views[terminal_views[tv].content.handle].has_new_content
    ELSE FALSE

\* TerminalView::has_conflict
has_conflict(tv) ==
    IF terminal_views[tv].content.variant = "Connected"
    THEN connected_views[terminal_views[tv].content.handle].has_bell
    ELSE FALSE

\* should_update_tab_on_event that takes the events behind a title change too.
should_update_tab_on_any_signal(event) == event \in {"TitleChanged", "Wakeup", "Bell"}

\* TerminalView::should_update_tab_on_event
should_update_tab_on_event(event) == event = "TitleChanged"

\* TerminalView::should_close_item_on_event
should_close_item_on_event(event) == event = "CloseTerminal"

\* TerminalView::should_activate_item_on_event
should_activate_item_on_event(event) == event = "Activate"

----------------------------------------------------------------------------
(* The Terminal model and the user. *)

\* A Terminal model emits an event in one of its updates.
TerminalEmits ==
    /\ Idle
    /\ \E m \in DOMAIN terminals, event \in Events :
           pending_effects' = <<EventEffect("Terminal", m, event, 1)>>
    /\ UNCHANGED <<terminals, pty_input, terminal_views, connected_views, error_views,
                   subscriptions, focused, focus_history>>
    /\ Calls(NoCall)

Bursts == UNION {[1..k -> Events] : k \in 2..MaxBurst}

\* A Terminal model emits several events in one of its updates.
TerminalEmitsBurst ==
    /\ Idle
    /\ \E m \in DOMAIN terminals, es \in Bursts :
           pending_effects' = [i \in 1..Len(es) |-> EventEffect("Terminal", m, es[i], i)]
    /\ UNCHANGED <<terminals, pty_input, terminal_views, connected_views, error_views,
                   subscriptions, focused, focus_history>>
    /\ Calls(NoCall)

\* The callback with a Wakeup that does not ask whether the view is focused.
on_terminal_event_any_focus(this, event, self_focused) ==
    CASE event = "Wakeup" ->
            [view |-> [this EXCEPT !.has_new_content = TRUE], emit |-> <<"TitleChanged">>]
      [] event = "Bell" ->
            [view |-> [this EXCEPT !.has_bell = TRUE], emit |-> <<"TitleChanged">>]
      [] OTHER -> [view |-> this, emit |-> <<event>>]

\* The callback with a Bell treated as a Wakeup is: ignored when focused.
on_terminal_event_bell_unfocused(this, event, self_focused) ==
    CASE event = "Wakeup" ->
            IF self_focused
            THEN [view |-> this, emit |-> <<>>]
            ELSE [view |-> [this EXCEPT !.has_new_content = TRUE],
                  emit |-> <<"TitleChanged">>]
      [] event = "Bell" ->
            IF self_focused
            THEN [view |-> this, emit |-> <<>>]
            ELSE [view |-> [this EXCEPT !.has_bell = TRUE], emit |-> <<"TitleChanged">>]
      [] OTHER -> [view |-> this, emit |-> <<event>>]

\* The callback with a Wakeup that emits nothing when the view is dirty already.
on_terminal_event_coalescing(this, event, self_focused) ==
    CASE event = "Wakeup" ->
            IF self_focused \/ this.has_new_content
            THEN [view |-> this, emit |-> <<>>]
            ELSE [view |-> [this EXCEPT !.has_new_content = TRUE],
                  emit |-> <<"TitleChanged">>]
      [] event = "Bell" ->
            [view |-> [this EXCEPT !.has_bell = TRUE], emit |-> <<"TitleChanged">>]
      [] OTHER -> [view |-> this, emit |-> <<event>>]

\* The callback ConnectedView::from_terminal subscribes to the Terminal
\* model: the view after the event and the events the view emits.
on_terminal_event(this, event, self_focused) ==
    CASE event = "Wakeup" ->
            IF self_focused
            THEN [view |-> this, emit |-> <<>>]
            ELSE [view |-> [this EXCEPT !.has_new_content = TRUE],
                  emit |-> <<"TitleChanged">>]
      [] event = "Bell" ->
            [view |-> [this EXCEPT !.has_bell = TRUE], emit |-> <<"TitleChanged">>]
      [] OTHER -> [view |-> this, emit |-> <<event>>]

\* ConnectedView::clear_bel
clear_bel(this) ==
    [view |-> [this EXCEPT !.has_bell = FALSE], emit |-> <<"TitleChanged">>]

\* The terminal element acknowledges the bell of view cv.
ClearBel ==
    /\ Idle
    /\ \E cv \in DOMAIN connected_views :
           LET r == clear_bel(connected_views[cv])
           IN  /\ connected_views' = [connected_views EXCEPT ![cv] = r.view]
               /\ pending_effects' =
                      [i \in 1..Len(r.emit) |-> EventEffect("ConnectedView", cv, r.emit[i], 0)]
    /\ UNCHANGED <<terminals, pty_input, terminal_views, error_views, subscriptions, focused,
                   focus_history>>
    /\ Calls(NoCall)

\* The actions init registers for ConnectedView that reach its Terminal.
Actions == {"Clear", "Copy", "Paste", "Up", "Down", "CtrlC", "Escape", "Enter"}

\* What an action sends the shell through the Terminal: the keystroke it
\* synthesizes or the clipboard text it pastes; clear and copy send nothing.
terminal_input(action) ==
    CASE action = "Up" -> "up"
      [] action = "Down" -> "down"
      [] action = "CtrlC" -> "ctrl-c"
      [] action = "Escape" -> "escape"
      [] action = "Enter" -> "enter"
      [] action = "Paste" -> "clipboard"
      [] OTHER -> None

\* The actions with the bell cleared by whatever is sent to the shell.
on_action_clearing_bell(this, action) ==
    IF terminal_input(action) = None THEN this ELSE [this EXCEPT !.has_bell = FALSE]

\* ConnectedView::clear, copy, paste, up, down, ctrl_c, escape and enter: each
\* only reads the Terminal handle and calls it; no field of the view changes.
on_action(this, action) == this

\* An action is dispatched to the view that holds focus.
UserAction ==
    /\ Idle
    /\ \E cv \in DOMAIN connected_views, action \in Actions :
           /\ is_self_focused(cv)
           /\ connected_views' =
                  [connected_views EXCEPT ![cv] = on_action(connected_views[cv], action)]
           /\ pty_input' =
                  IF terminal_input(action) = None
                  THEN pty_input
                  ELSE [terminal |-> connected_views[cv].terminal,
                        input |-> terminal_input(action)]
    /\ UNCHANGED <<terminals, terminal_views, error_views, subscriptions, focused, pending_effects,
                   focus_history>>
    /\ Calls(NoCall)

\* The event loop of the Terminal hands the input to the shell.
PtyReads ==
    /\ pty_input # NoInput
    /\ pty_input' = NoInput
    /\ UNCHANGED <<terminals, terminal_views, connected_views, error_views, subscriptions,
                   focused, pending_effects, focus_history>>
    /\ UNCHANGED wd_vars

\* The host or the terminal element moves focus to a view, or to a view of
\* the host (0).
HostFocus ==
    /\ Idle
    /\ \E v \in ViewIds \cup {0} : pending_effects' = <<FocusEffect(v)>>
    /\ UNCHANGED <<terminals, pty_input, terminal_views, connected_views, error_views,
                   subscriptions, focused, focus_history>>
    /\ Calls(NoCall)

----------------------------------------------------------------------------
(* Flushing the effect queue, one effect a step. *)

Flushing(type, entity) ==
    /\ pending_effects # <<>>
    /\ Head(pending_effects).type = type
    /\ Head(pending_effects).entity = entity

\* The ConnectedViews subscribed to Terminal model m, in subscription order.
Subscribers(m) == Ascending({cv \in DOMAIN connected_views : connected_views[cv].terminal = m})

\* The events view cv emits, as effects caused by the effect being flushed.
Emitted(entity, id, emit, cause) ==
    [i \in 1..Len(emit) |-> EventEffect(entity, id, emit[i], cause)]

\* An event of a Terminal model reaches the callback of every subscriber.
FlushTerminalEvent ==
    /\ Flushing("Event", "Terminal")
    /\ LET effect == Head(pending_effects)
           subs == Subscribers(effect.id)
           result(cv) == on_terminal_event(connected_views[cv], effect.payload,
                                           is_self_focused(cv))
       IN  /\ connected_views' =
                  [cv \in DOMAIN connected_views |->
                      IF connected_views[cv].terminal = effect.id
                      THEN result(cv).view
                      ELSE connected_views[cv]]
           /\ pending_effects' = Tail(pending_effects) \o
                  Concat([i \in 1..Len(subs) |->
                      Emitted("ConnectedView", subs[i], result(subs[i]).emit, effect.cause)])
           /\ focus_history' =
                  [cv \in DOMAIN focus_history |->
                      IF /\ connected_views[cv].terminal = effect.id
                         /\ effect.payload = "Wakeup"
                         /\ focused # cv
                      THEN "output"
                      ELSE focus_history[cv]]
    /\ UNCHANGED <<terminals, pty_input, terminal_views, error_views, subscriptions, focused>>
    /\ UNCHANGED wd_vars

\* The callback TerminalView::new subscribes to its ConnectedView:
\* cx.emit(event.clone()).
on_connected_view_event(event) == <<event>>

\* An event of a ConnectedView reaches the TerminalViews subscribed to it.
FlushConnectedViewEvent ==
    /\ Flushing("Event", "ConnectedView")
    /\ LET effect == Head(pending_effects)
           subs == Ascending({tv \in DOMAIN terminal_views : <<tv, effect.id>> \in subscriptions})
       IN  pending_effects' = Tail(pending_effects) \o
               Concat([i \in 1..Len(subs) |->
                   Emitted("TerminalView", subs[i], on_connected_view_event(effect.payload),
                           effect.cause)])
    /\ UNCHANGED <<terminals, pty_input, terminal_views, connected_views, error_views,
                   subscriptions, focused, focus_history>>
    /\ UNCHANGED wd_vars

\* An event of a TerminalView reaches the host, which owns what follows.
FlushTerminalViewEvent ==
    /\ Flushing("Event", "TerminalView")
    /\ pending_effects' = Tail(pending_effects)
    /\ UNCHANGED <<terminals, pty_input, terminal_views, connected_views, error_views,
                   subscriptions, focused, focus_history>>
    /\ UNCHANGED wd_vars

\* on_focus that emits Activate and keeps focus on the TerminalView.
TerminalView_on_focus_keeping_focus(tv) ==
    <<EventEffect("TerminalView", tv, "Activate", 0)>>

\* TerminalView::on_focus: the effects it queues.
TerminalView_on_focus(tv) ==
    <<EventEffect("TerminalView", tv, "Activate", 0), DeferredEffect(tv)>>

\* on_focus that clears the bell too.
ConnectedView_on_focus_clearing_bell(this) ==
    [this EXCEPT !.has_new_content = FALSE, !.has_bell = FALSE]

\* ConnectedView::on_focus
ConnectedView_on_focus(this) == [this EXCEPT !.has_new_content = FALSE]

\* A focus request: nothing happens when the view holds focus already,
\* otherwise focus moves and the view's on_focus runs.
FlushFocus ==
    /\ Flushing("Focus", "View")
    /\ LET v == Head(pending_effects).id
       IN  IF focused = v
           THEN /\ pending_effects' = Tail(pending_effects)
                /\ UNCHANGED <<connected_views, focused, focus_history>>
           ELSE /\ focused' = v
                /\ pending_effects' = Tail(pending_effects) \o
                       (IF v \in DOMAIN terminal_views THEN TerminalView_on_focus(v) ELSE <<>>)
                /\ connected_views' =
                       IF v \in DOMAIN connected_views
                       THEN [connected_views EXCEPT
                                ![v] = ConnectedView_on_focus(connected_views[v])]
                       ELSE connected_views
                /\ focus_history' =
                       IF v \in DOMAIN focus_history
                       THEN [focus_history EXCEPT ![v] = "focused"]
                       ELSE focus_history
    /\ UNCHANGED <<terminals, pty_input, terminal_views, error_views, subscriptions>>
    /\ UNCHANGED wd_vars

\* The callback TerminalView::on_focus defers: cx.focus(view.content.handle()).
deferred_focus(view) == <<FocusEffect(view.content.handle)>>

FlushDeferred ==
    /\ Flushing("Deferred", "TerminalView")
    /\ pending_effects' = Tail(pending_effects) \o
           deferred_focus(terminal_views[Head(pending_effects).id])
    /\ UNCHANGED <<terminals, pty_input, terminal_views, connected_views, error_views,
                   subscriptions, focused, focus_history>>
    /\ UNCHANGED wd_vars

----------------------------------------------------------------------------
(* The specification of the views. *)

InitViews ==
    /\ terminals = <<>>
    /\ pty_input = NoInput
    /\ terminal_views = <<>>
    /\ connected_views = <<>>
    /\ error_views = <<>>
    /\ subscriptions = {}
    /\ focused = 0
    /\ pending_effects = <<>>
    /\ focus_history = <<>>

Init ==
    /\ InitViews
    /\ workspace = [worktrees |-> <<>>, active_entry |-> 0]
    /\ wd_setting = [kind |-> "Unset", directory |-> None]
    /\ home = "/home"
    /\ resolved = NoCall

Next ==
    \/ Deploy
    \/ FromTerminal
    \/ CloneOnSplit
    \/ TerminalEmits
    \/ ClearBel
    \/ UserAction
    \/ PtyReads
    \/ HostFocus
    \/ FlushTerminalEvent
    \/ FlushConnectedViewEvent
    \/ FlushTerminalViewEvent
    \/ FlushFocus
    \/ FlushDeferred

Spec == Init /\ [][Next]_vars

\* An update flushes the effects it queued before it returns: every effect
\* that waits is delivered.
Flush ==
    \/ FlushTerminalEvent
    \/ FlushConnectedViewEvent
    \/ FlushTerminalViewEvent
    \/ FlushFocus
    \/ FlushDeferred

SpecFlushed == Spec /\ WF_vars(Flush)

\* The views when a Terminal model may emit several events in one update.
NextBurst == Next \/ TerminalEmitsBurst

SpecBurst == Init /\ [][NextBurst]_vars

----------------------------------------------------------------------------
(* The specification of the resolver: a workspace, a setting and a home     *)
(* directory are drawn, and the functions are called on them.               *)

InitWD ==
    /\ InitViews
    /\ workspace \in Workspaces
    /\ wd_setting \in WorkingDirectories
    /\ home \in Homes
    /\ resolved = NoCall

CallCurrentProjectDirectory ==
    /\ resolved' = [call |-> "current_project_directory",
                    result |-> current_project_directory(workspace)]
    /\ UNCHANGED <<workspace, wd_setting, home>>
    /\ UNCHANGED view_vars

CallFirstProjectDirectory ==
    /\ resolved' = [call |-> "first_project_directory",
                    result |-> first_project_directory(workspace)]
    /\ UNCHANGED <<workspace, wd_setting, home>>
    /\ UNCHANGED view_vars

CallGetWorkingDirectory ==
    /\ resolved' = [call |-> "get_working_directory",
                    result |-> get_working_directory(workspace, wd_setting, home)]
    /\ UNCHANGED <<workspace, wd_setting, home>>
    /\ UNCHANGED view_vars

\* The project's active entry changes (the tests' insert_active_entry_for).
SetActiveEntry ==
    /\ \E entry_id \in 0..(MaxWorktrees + 1) :
           /\ entry_id # workspace.active_entry
           /\ workspace' = [workspace EXCEPT !.active_entry = entry_id]
    /\ resolved' = NoCall
    /\ UNCHANGED <<wd_setting, home>>
    /\ UNCHANGED view_vars

NextWD ==
    \/ CallCurrentProjectDirectory
    \/ CallFirstProjectDirectory
    \/ CallGetWorkingDirectory
    \/ SetActiveEntry

SpecWD == InitWD /\ [][NextWD]_vars

\* The host asks the predicates of the Item about an event.
CallShouldUpdateTabOnEvent ==
    /\ \E event \in Events :
           resolved' = [call |-> "should_update_tab_on_event", event |-> event,
                        result |-> should_update_tab_on_event(event)]
    /\ UNCHANGED <<workspace, wd_setting, home>>
    /\ UNCHANGED view_vars

CallShouldCloseItemOnEvent ==
    /\ \E event \in Events :
           resolved' = [call |-> "should_close_item_on_event", event |-> event,
                        result |-> should_close_item_on_event(event)]
    /\ UNCHANGED <<workspace, wd_setting, home>>
    /\ UNCHANGED view_vars

CallShouldActivateItemOnEvent ==
    /\ \E event \in Events :
           resolved' = [call |-> "should_activate_item_on_event", event |-> event,
                        result |-> should_activate_item_on_event(event)]
    /\ UNCHANGED <<workspace, wd_setting, home>>
    /\ UNCHANGED view_vars

NextItem ==
    \/ NextWD
    \/ CallShouldUpdateTabOnEvent
    \/ CallShouldCloseItemOnEvent
    \/ CallShouldActivateItemOnEvent

\* The functions of this file that only compute: the resolver and the
\* predicates of the Item.
SpecItem == InitWD /\ [][NextItem]_vars

----------------------------------------------------------------------------
(* Properties. *)

\* The handles whose content is of the variant.
Handles(variant) == {tv \in DOMAIN terminal_views : terminal_views[tv].content.variant = variant}

\* The ConnectedView of a Connected handle.
Connected(tv) == terminal_views[tv].content.handle

\* The events of ConnectedView cv that wait in queue q, in order.
SignalsOf(q, cv) ==
    SelectSeq(q, LAMBDA e : e.type = "Event" /\ e.entity = "ConnectedView" /\ e.id = cv)

\* The events of TerminalView tv, on their way to the host, that wait in q.
HostEventsOf(q, tv) ==
    SelectSeq(q, LAMBDA e : e.type = "Event" /\ e.entity = "TerminalView" /\ e.id = tv)

\* The step flushes an event of the Terminal model that view cv subscribed to.
Receives(cv, payloads) ==
    /\ Flushing("Event", "Terminal")
    /\ Head(pending_effects).id = connected_views[cv].terminal
    /\ Head(pending_effects).payload \in payloads

\* C1: the content variant of a handle never changes: under every step a
\* Connected handle stays a Connected handle over the same connected view and
\* an Error handle stays an Error handle.
C1_VariantFixed ==
    [][\A tv \in DOMAIN terminal_views :
          /\ tv \in DOMAIN terminal_views'
          /\ terminal_views'[tv].content = terminal_views[tv].content
          /\ terminal_views[tv].content.variant = "Connected"
                => Connected(tv) \in DOMAIN connected_views'
          /\ terminal_views[tv].content.variant = "Error"
                => terminal_views[tv].content.handle \in DOMAIN error_views']_vars

\* A Connected handle that has seen a bell and an Error handle, side by side,
\* one of them a clone or a later tab.
C1_Witness ==
    /\ Idle
    /\ \E tv \in Handles("Connected") : has_conflict(tv)
    /\ Handles("Error") # {}

\* C2: a Wakeup that reaches an unfocused ConnectedView sets has_new_content
\* and makes the view emit exactly one TitleChanged; one that reaches the
\* focused view leaves has_new_content alone and emits nothing; has_bell stays.
C2_Wakeup ==
    [][\A cv \in DOMAIN connected_views :
          Receives(cv, {"Wakeup"}) =>
              /\ connected_views'[cv].has_bell = connected_views[cv].has_bell
              /\ IF focused = cv
                 THEN /\ connected_views'[cv].has_new_content =
                             connected_views[cv].has_new_content
                      /\ SignalsOf(pending_effects', cv) =
                             SignalsOf(Tail(pending_effects), cv)
                 ELSE /\ connected_views'[cv].has_new_content
                      /\ SignalsOf(pending_effects', cv) =
                             Append(SignalsOf(Tail(pending_effects), cv),
                                    EventEffect("ConnectedView", cv, "TitleChanged",
                                                Head(pending_effects).cause))]_vars

\* An unfocused view just took a Wakeup: it is dirty and its TitleChanged
\* waits in the queue, while another view holds focus.
C2_Witness ==
    \E cv \in DOMAIN connected_views :
        /\ focused # cv
        /\ focus_history[cv] = "output"
        /\ connected_views[cv].has_new_content
        /\ ~connected_views[cv].has_bell
        /\ pending_effects = <<EventEffect("ConnectedView", cv, "TitleChanged", 1)>>

\* C3: a Bell that reaches a ConnectedView sets has_bell and makes the view
\* emit exactly one TitleChanged, focused or not; has_new_content stays.
C3_Bell ==
    [][\A cv \in DOMAIN connected_views :
          Receives(cv, {"Bell"}) =>
              /\ connected_views'[cv].has_bell
              /\ connected_views'[cv].has_new_content = connected_views[cv].has_new_content
              /\ SignalsOf(pending_effects', cv) =
                     Append(SignalsOf(Tail(pending_effects), cv),
                            EventEffect("ConnectedView", cv, "TitleChanged",
                                        Head(pending_effects).cause))]_vars

\* The focused view just took a Bell: the bell is set, the view is not dirty
\* and its TitleChanged waits in the queue.
C3_Witness ==
    \E cv \in DOMAIN connected_views :
        /\ focused = cv
        /\ connected_views[cv].has_bell
        /\ ~connected_views[cv].has_new_content
        /\ SignalsOf(pending_effects, cv) =
               <<EventEffect("ConnectedView", cv, "TitleChanged", 1)>>

\* C4: when a ConnectedView gains focus, has_new_content becomes false and
\* has_bell keeps its value.
C4_FocusKeepsBell ==
    [][\A cv \in DOMAIN connected_views :
          (focused # cv /\ focused' = cv) =>
              /\ ~connected_views'[cv].has_new_content
              /\ connected_views'[cv].has_bell = connected_views[cv].has_bell]_vars

\* A view that holds focus, whose focus handler ran last, is clean and still
\* shows its bell.
C4_Witness ==
    \E tv \in Handles("Connected") :
        /\ focused = Connected(tv)
        /\ focus_history[Connected(tv)] = "focused"
        /\ has_conflict(tv)
        /\ ~is_dirty(tv)

\* The step is clear_bel of view cv: an update that makes cv emit an event no
\* Terminal event caused.
Acknowledges(cv) ==
    /\ Idle
    /\ SignalsOf(pending_effects', cv) # <<>>

C6_DirtyIffOutput ==
    \A tv \in Handles("Connected") :
        is_dirty(tv) <=> focus_history[Connected(tv)] = "output"

\* C6, amended: a Connected handle is dirty exactly when its view has not
\* gained focus since it was constructed, or a Wakeup reached the view while
\* it did not hold focus and the view has not gained focus since.
C6_DirtyIffOutputOrNew ==
    \A tv \in Handles("Connected") :
        is_dirty(tv) <=> focus_history[Connected(tv)] \in {"constructed", "output"}

\* A handle over a view that was constructed and never focused is dirty with
\* no update running; another handle was focused and is clean.
C6_Witness ==
    /\ Idle
    /\ \E tv \in Handles("Connected") :
           is_dirty(tv) /\ focus_history[Connected(tv)] = "constructed"
    /\ \E tv \in Handles("Connected") :
           ~is_dirty(tv) /\ focus_history[Connected(tv)] = "focused"

\* C7: an Error handle is never dirty and never in conflict; a Connected
\* handle is dirty as its view has new content and in conflict as its view
\* has a bell.
C7_Adapter ==
    /\ \A tv \in Handles("Error") : ~is_dirty(tv) /\ ~has_conflict(tv)
    /\ \A tv \in Handles("Connected") :
           /\ is_dirty(tv) = connected_views[Connected(tv)].has_new_content
           /\ has_conflict(tv) = connected_views[Connected(tv)].has_bell

\* An Error handle beside a Connected handle that is dirty and in conflict.
C7_Witness ==
    /\ Handles("Error") # {}
    /\ \E tv \in Handles("Connected") : is_dirty(tv) /\ has_conflict(tv)

\* The events a ConnectedView forwards as they are.
Forwarded == {"Activate", "TitleChanged", "CloseTerminal"}

\* C8: an Activate, TitleChanged or CloseTerminal of the Terminal model that
\* reaches a Connected handle is forwarded to the host as an event of the
\* same kind, exactly once, and neither flag changes: the connected view emits
\* it once, and the handle emits once the Activate or CloseTerminal its
\* connected view emitted (a TitleChanged of the view may come from a Wakeup
\* or a Bell, so the second hop is stated for the other two).
C8_ForwardedToHost ==
    [][\A tv \in Handles("Connected") :
          LET cv == Connected(tv)
              effect == Head(pending_effects)
          IN  /\ Receives(cv, Forwarded) =>
                    /\ connected_views'[cv] = connected_views[cv]
                    /\ SignalsOf(pending_effects', cv) =
                           Append(SignalsOf(Tail(pending_effects), cv),
                                  EventEffect("ConnectedView", cv, effect.payload,
                                              effect.cause))
              /\ (/\ Flushing("Event", "ConnectedView")
                  /\ effect.id = cv
                  /\ effect.payload \in {"Activate", "CloseTerminal"}) =>
                    /\ connected_views'[cv] = connected_views[cv]
                    /\ HostEventsOf(pending_effects', tv) =
                           Append(HostEventsOf(Tail(pending_effects), tv),
                                  EventEffect("TerminalView", tv, effect.payload,
                                              effect.cause))]_vars

\* The events of Terminal model m that wait in queue q, in order.
TerminalEventsOf(q, m) ==
    SelectSeq(q, LAMBDA e : e.type = "Event" /\ e.entity = "Terminal" /\ e.id = m)

\* What a ConnectedView emits for an event of its Terminal model.
SignalFor(payload) == IF payload \in {"Wakeup", "Bell"} THEN "TitleChanged" ELSE payload

\* C9: the signals a ConnectedView emits keep the order of the events of its
\* Terminal model: the signals that wait are in the order of the events that
\* caused them and ahead of the events not yet delivered; and each event
\* yields a signal of its own, but for a Wakeup that finds the view focused.
C9_OrderKept ==
    /\ [](\A cv \in DOMAIN connected_views :
             LET signals == SignalsOf(pending_effects, cv)
                 events == TerminalEventsOf(pending_effects, connected_views[cv].terminal)
             IN  /\ \A i, j \in DOMAIN signals : i < j => signals[i].cause < signals[j].cause
                 /\ \A i, j \in DOMAIN events : i < j => events[i].cause < events[j].cause
                 /\ \A i \in DOMAIN signals, j \in DOMAIN events :
                        signals[i].cause < events[j].cause)
    /\ [][\A cv \in DOMAIN connected_views :
             Receives(cv, Events) =>
                 LET effect == Head(pending_effects)
                 IN  SignalsOf(pending_effects', cv) =
                         SignalsOf(Tail(pending_effects), cv) \o
                             (IF effect.payload = "Wakeup" /\ focused = cv
                              THEN <<>>
                              ELSE <<EventEffect("ConnectedView", cv,
                                                 SignalFor(effect.payload), effect.cause)>>)]_vars

\* Two signals of one unfocused view wait in the queue, the first for a
\* Wakeup and the second for the Wakeup the model emitted after it.
C9_Witness ==
    \E cv \in DOMAIN connected_views :
        /\ focused # cv
        /\ focus_history[cv] = "output"
        /\ ~connected_views[cv].has_bell
        /\ pending_effects = <<EventEffect("ConnectedView", cv, "TitleChanged", 1),
                               EventEffect("ConnectedView", cv, "TitleChanged", 2)>>

\* The worktree the claim of C10 lets decide: the one that holds the active
\* entry, or the first one when there is no active entry; 0 in other cases.
C10_Deciding ==
    LET n == Len(workspace.worktrees)
        a == workspace.active_entry
    IN  IF a \in 1..n THEN a ELSE IF a = 0 /\ n > 0 THEN 1 ELSE 0

\* C10, as claimed: current_project_directory returns the root path of the
\* deciding worktree if its root entry is a directory and None if it is a file.
C10_RootDirDecides ==
    (resolved.call = "current_project_directory" /\ C10_Deciding # 0) =>
        LET wt == workspace.worktrees[C10_Deciding]
        IN  /\ wt.root_entry = "dir" => resolved.result = RootDirs[C10_Deciding]
            /\ wt.root_entry = "file" => resolved.result = None

\* C10, amended: current_project_directory returns the root path of the
\* deciding worktree if that worktree is local and its root entry is a
\* directory, and None otherwise, whatever the other worktrees are.
C10_LocalRootDirDecides ==
    (resolved.call = "current_project_directory" /\ C10_Deciding # 0) =>
        LET wt == workspace.worktrees[C10_Deciding]
        IN  resolved.result =
                IF wt.local /\ wt.root_entry = "dir" THEN RootDirs[C10_Deciding] ELSE None

\* The call returned None for an active entry in a second worktree rooted at
\* a file, though the first worktree is a local directory.
C10_Witness ==
    /\ resolved = [call |-> "current_project_directory", result |-> None]
    /\ Len(workspace.worktrees) = 2
    /\ workspace.active_entry = 2
    /\ workspace.worktrees[1] = [root_entry |-> "dir", local |-> TRUE]
    /\ workspace.worktrees[2] = [root_entry |-> "file", local |-> TRUE]

\* C11, as claimed: first_project_directory returns the root path of the
\* first worktree if its root entry is a directory and None otherwise, and
\* the same for every active entry the workspace could have instead.
C11_FirstRootDirDecides ==
    resolved.call = "first_project_directory" =>
        LET wts == workspace.worktrees
        IN  /\ resolved.result =
                   IF Len(wts) > 0 /\ wts[1].root_entry = "dir" THEN RootDirs[1] ELSE None
            /\ \A a \in 0..(MaxWorktrees + 1) :
                   first_project_directory([workspace EXCEPT !.active_entry = a]) =
                       resolved.result

\* C11, amended: first_project_directory returns the root path of the first
\* worktree if that worktree is local and its root entry is a directory, and
\* None otherwise, and the same for every active entry the workspace could
\* have instead.
C11_FirstLocalRootDirDecides ==
    resolved.call = "first_project_directory" =>
        LET wts == workspace.worktrees
        IN  /\ resolved.result =
                   IF Len(wts) > 0 /\ wts[1].local /\ wts[1].root_entry = "dir"
                   THEN RootDirs[1]
                   ELSE None
            /\ \A a \in 0..(MaxWorktrees + 1) :
                   first_project_directory([workspace EXCEPT !.active_entry = a]) =
                       resolved.result

\* The call returned the root of the first worktree while the active entry
\* lies in the second one, both local directories.
C11_Witness ==
    /\ resolved = [call |-> "first_project_directory", result |-> "/root1"]
    /\ Len(workspace.worktrees) = 2
    /\ workspace.active_entry = 2
    /\ workspace.worktrees[1] = [root_entry |-> "dir", local |-> TRUE]
    /\ workspace.worktrees[2] = [root_entry |-> "dir", local |-> TRUE]

\* The calls C12 is about.
C12_Calls == {"current_project_directory", "first_project_directory"}

\* The workspace has no worktree, or its only worktree is rooted at a file.
C12_NothingToOffer ==
    \/ Len(workspace.worktrees) = 0
    \/ Len(workspace.worktrees) = 1 /\ workspace.worktrees[1].root_entry = "file"

\* The workspace has a single worktree rooted at a directory, and no active entry.
C12_SingleDir ==
    /\ Len(workspace.worktrees) = 1
    /\ workspace.worktrees[1].root_entry = "dir"
    /\ workspace.active_entry = 0

\* C12, as claimed: both functions return None for a workspace without a
\* worktree or with a single worktree rooted at a file, and the root path for
\* a single worktree rooted at a directory when there is no active entry.
C12_NoneUnlessSingleDir ==
    resolved.call \in C12_Calls =>
        /\ C12_NothingToOffer => resolved.result = None
        /\ C12_SingleDir => resolved.result = RootDirs[1]

\* C12, amended: as claimed, but the single worktree rooted at a directory
\* gives its root path only if it is a local worktree, and None if it is not.
C12_NoneUnlessSingleLocalDir ==
    resolved.call \in C12_Calls =>
        /\ C12_NothingToOffer => resolved.result = None
        /\ C12_SingleDir =>
               resolved.result =
                   IF workspace.worktrees[1].local THEN RootDirs[1] ELSE None

\* current_project_directory returned None for a single local worktree
\* rooted at a file that holds the active entry.
C12_Witness ==
    /\ resolved = [call |-> "current_project_directory", result |-> None]
    /\ workspace.worktrees = <<[root_entry |-> "file", local |-> TRUE]>>
    /\ workspace.active_entry = 1

\* What the policy named by the setting yields, as C13 names the policies: a
\* project directory function, nothing for AlwaysHome, the policy step for
\* Always { directory }.
C13_PolicyYields ==
    CASE wd_setting.kind \in {"Unset", "CurrentProjectDirectory"} ->
             current_project_directory(workspace)
      [] wd_setting.kind = "FirstProjectDirectory" -> first_project_directory(workspace)
      [] wd_setting.kind = "AlwaysHome" -> None
      [] wd_setting.kind = "Always" -> working_directory_policy(workspace, wd_setting, home)

\* C13: get_working_directory returns the home directory when the policy
\* yields None and exactly the path the policy yields when it yields one;
\* AlwaysHome always returns the home directory.
C13_HomeWhenNone ==
    resolved.call = "get_working_directory" =>
        /\ C13_PolicyYields = None => resolved.result = home
        /\ C13_PolicyYields # None => resolved.result = C13_PolicyYields
        /\ wd_setting.kind = "AlwaysHome" => resolved.result = home

\* The call returned the home directory under FirstProjectDirectory for a
\* workspace whose first worktree is rooted at a file.
C13_Witness ==
    /\ resolved = [call |-> "get_working_directory", result |-> "/home"]
    /\ home = "/home"
    /\ wd_setting.kind = "FirstProjectDirectory"
    /\ Len(workspace.worktrees) > 0
    /\ workspace.worktrees[1] = [root_entry |-> "file", local |-> TRUE]

\* C18: under Always { directory }, get_working_directory returns the
\* expanded path when the expansion succeeds and the expanded path is an
\* existing directory, and the home directory when the expansion fails or
\* the expanded path is missing or is not a directory; it always returns.
C18_AlwaysDirectory ==
    (resolved.call = "get_working_directory" /\ wd_setting.kind = "Always") =>
        LET expanded == shellexpand_full(wd_setting.directory, home)
        IN  /\ (expanded # None /\ is_dir(expanded)) =>
                   /\ working_directory_policy(workspace, wd_setting, home) = expanded
                   /\ resolved.result = expanded
            /\ (expanded = None \/ ~is_dir(expanded)) =>
                   /\ working_directory_policy(workspace, wd_setting, home) = None
                   /\ resolved.result = home
            /\ resolved.result \in {expanded, home}

\* The call returned the home directory for a directory with a variable
\* that is not set, in a workspace with a local directory worktree.
C18_Witness ==
    /\ resolved = [call |-> "get_working_directory", result |-> "/home"]
    /\ wd_setting = [kind |-> "Always", directory |-> "$UNSET/fixed"]
    /\ Len(workspace.worktrees) > 0
    /\ workspace.worktrees[1] = [root_entry |-> "dir", local |-> TRUE]

\* The call returned the directory ~ expands to.
C18_WitnessExpanded ==
    /\ resolved = [call |-> "get_working_directory", result |-> "/home/fixed"]
    /\ wd_setting = [kind |-> "Always", directory |-> "~/fixed"]

\* The step is clone_on_split of handle tv.
C14_Clones(tv) ==
    /\ Idle
    /\ resolved'.call = "clone_on_split"
    /\ resolved'.this = tv

\* The step builds handle nv in the directory the Terminal model of handle
\* tv recorded: when nv is Connected, it is over a model the step builds,
\* which records that directory.
C14_BuiltInAssociatedDirectory(tv, nv) ==
    /\ DOMAIN terminal_views' = DOMAIN terminal_views \cup {nv}
    /\ nv \notin DOMAIN terminal_views
    /\ terminal_views'[nv].content.variant = "Connected" =>
           LET original == connected_views[Connected(tv)].terminal
               model == connected_views'[terminal_views'[nv].content.handle].terminal
           IN  /\ model \notin DOMAIN terminals
               /\ model # original
               /\ terminals'[model].associated_directory =
                      terminals[original].associated_directory

\* C14, as claimed: clone_on_split of an Error handle returns None and builds
\* nothing; of a Connected handle it returns a new handle built in the
\* directory the original's Terminal model recorded, over a model of its own.
C14_CloneOverNewModel ==
    [][\A tv \in DOMAIN terminal_views :
          C14_Clones(tv) =>
              IF terminal_views[tv].content.variant = "Error"
              THEN resolved'.result = None /\ UNCHANGED view_vars
              ELSE /\ resolved'.result = "Some"
                   /\ C14_BuiltInAssociatedDirectory(tv, NextViewId)
                   /\ terminal_views'[NextViewId].content.variant = "Connected"]_vars

\* C14, amended: as claimed, but the new handle is over a model of its own
\* only when that model can be built, and is an Error handle when it cannot;
\* it is never over the original's model.
C14_CloneInAssociatedDirectory ==
    [][\A tv \in DOMAIN terminal_views :
          C14_Clones(tv) =>
              IF terminal_views[tv].content.variant = "Error"
              THEN resolved'.result = None /\ UNCHANGED view_vars
              ELSE /\ resolved'.result = "Some"
                   /\ C14_BuiltInAssociatedDirectory(tv, NextViewId)
                   /\ terminal_views'[NextViewId].content.variant = "Error" =>
                          DOMAIN terminals' = DOMAIN terminals]_vars

\* clone_on_split just returned a handle over a second model that records
\* the project directory the first model was spawned in.
C14_Witness ==
    /\ resolved.call = "clone_on_split"
    /\ resolved.result = "Some"
    /\ Handles("Connected") = {resolved.this, 3}
    /\ connected_views[Connected(3)].terminal = 2
    /\ connected_views[Connected(resolved.this)].terminal = 1
    /\ terminals[1].associated_directory = "/root2"
    /\ terminals[2].associated_directory = "/root2"

\* clone_on_split of an Error handle just returned None.
C14_WitnessError ==
    /\ resolved.call = "clone_on_split"
    /\ resolved.result = None
    /\ resolved.this \in Handles("Error")

\* The step adds handle nv.
C15_Constructs(nv) == nv \notin DOMAIN terminal_views /\ nv \in DOMAIN terminal_views'

\* C15: the step that constructs a handle requests focus for the content view
\* of the handle, the connected view or the error view.
C15_FocusRequested ==
    [][\A nv \in DOMAIN terminal_views' :
          C15_Constructs(nv) =>
              /\ Len(pending_effects') > 0
              /\ pending_effects'[Len(pending_effects')] =
                     FocusEffect(terminal_views'[nv].content.handle)]_vars

\* C16: no two handles hold connected views over the same Terminal model.
C16_OneViewPerModel ==
    \A tv, other \in Handles("Connected") :
        tv # other =>
            connected_views[Connected(tv)].terminal #
                connected_views[Connected(other)].terminal

\* The names of the three predicates.
C17_Predicates ==
    {"should_update_tab_on_event", "should_close_item_on_event",
     "should_activate_item_on_event"}

\* The predicate of that name, on an event.
C17_Apply(predicate, event) ==
    CASE predicate = "should_update_tab_on_event" -> should_update_tab_on_event(event)
      [] predicate = "should_close_item_on_event" -> should_close_item_on_event(event)
      [] predicate = "should_activate_item_on_event" -> should_activate_item_on_event(event)

\* C17: each predicate is true of one event kind only, TitleChanged for the
\* tab update, CloseTerminal for the close and Activate for the activation;
\* no event satisfies two of them and Wakeup and Bell satisfy none.
C17_OneKindEach ==
    /\ resolved.call = "should_update_tab_on_event" =>
           (resolved.result <=> resolved.event = "TitleChanged")
    /\ resolved.call = "should_close_item_on_event" =>
           (resolved.result <=> resolved.event = "CloseTerminal")
    /\ resolved.call = "should_activate_item_on_event" =>
           (resolved.result <=> resolved.event = "Activate")
    /\ resolved.call \in C17_Predicates =>
           /\ Cardinality({p \in C17_Predicates : C17_Apply(p, resolved.event)}) <= 1
           /\ resolved.event \in {"Wakeup", "Bell"} => ~resolved.result

\* The close predicate was just asked about a Bell and answered no.
C17_Witness ==
    /\ resolved.call = "should_close_item_on_event"
    /\ resolved.event = "Bell"
    /\ ~resolved.result

\* The step sends input to the shell through view cv, which holds focus.
C19_SendsInput(cv) ==
    /\ pty_input = NoInput
    /\ pty_input' # NoInput
    /\ pty_input'.terminal = connected_views[cv].terminal
    /\ focused = cv

\* C19: the bell of a view is cleared once input is sent to the Terminal
\* through the view: after up, down, ctrl-c, escape, enter or paste the view
\* shows no bell.
C19_InputClearsBell ==
    [][\A cv \in DOMAIN connected_views :
          C19_SendsInput(cv) => ~connected_views'[cv].has_bell]_vars

\* C20: every Connected handle emits again each event its connected view
\* emits, whichever constructor built the handle.
C20_ReEmitsAll ==
    [][\A tv \in Handles("Connected") :
          (/\ Flushing("Event", "ConnectedView")
           /\ Head(pending_effects).id = Connected(tv)) =>
              HostEventsOf(pending_effects', tv) =
                  Append(HostEventsOf(Tail(pending_effects), tv),
                         EventEffect("TerminalView", tv, Head(pending_effects).payload,
                                     Head(pending_effects).cause))]_vars

\* The ids a TerminalView can have.
C21_Ids == 1..(2 * MaxViews)

\* C21: a TerminalView that receives focus emits exactly one Activate and
\* defers a callback; the callback requests focus for the content view of the
\* handle; for a Connected handle the focus handler of the connected view
\* then runs, so the handle is no longer dirty, and it becomes dirty again
\* only by a Wakeup that reaches the connected view while it is not focused.
C21_FocusHandedOn ==
    /\ [][\A tv \in DOMAIN terminal_views :
             (focused # tv /\ focused' = tv) =>
                 pending_effects' = Tail(pending_effects) \o
                     <<EventEffect("TerminalView", tv, "Activate", 0), DeferredEffect(tv)>>]_vars
    /\ [][\A tv \in DOMAIN terminal_views :
             (Flushing("Deferred", "TerminalView") /\ Head(pending_effects).id = tv) =>
                 /\ pending_effects' = Tail(pending_effects) \o
                        <<FocusEffect(terminal_views[tv].content.handle)>>
                 /\ focused' = focused]_vars
    /\ \A tv \in C21_Ids :
           (tv \in DOMAIN terminal_views /\ focused = tv) ~>
               (/\ tv \in DOMAIN terminal_views
                /\ focused = terminal_views[tv].content.handle
                /\ ~is_dirty(tv))
    /\ [][\A cv \in DOMAIN connected_views :
             (~connected_views[cv].has_new_content /\ connected_views'[cv].has_new_content) =>
                 (Receives(cv, {"Wakeup"}) /\ focused # cv)]_vars

\* A dirty Connected handle just received focus: its Activate and its
\* deferred callback wait, and its connected view has not been focused yet.
C21_Witness ==
    \E tv \in Handles("Connected") :
        /\ focused = tv
        /\ is_dirty(tv)
        /\ focus_history[Connected(tv)] = "output"
        /\ pending_effects =
               <<EventEffect("TerminalView", tv, "Activate", 0), DeferredEffect(tv)>>

C22_WitnessRejected ==
    /\ resolved = [call |-> "current_project_directory", result |-> None]
    /\ Len(workspace.worktrees) = 2
    /\ workspace.active_entry = 2
    /\ workspace.worktrees[1] = [root_entry |-> "dir", local |-> TRUE]
    /\ workspace.worktrees[2] = [root_entry |-> "dir", local |-> FALSE]

====
